---- MODULE Spec2Model ----
(***************************************************************************)
(* A model of comfylogger (src/src/logger.ts): the process-wide tag        *)
(* filter registry, the ComfyLogger instances (configuration, listeners,   *)
(* transformers) and the rendering / dispatch pipeline of log().           *)
(*                                                                         *)
(* Text is a sequence of tokens: one token per character, plus one token   *)
(* per terminal escape sequence.  In a token ESC stands for \x1b and BEL    *)
(* for \u0007; a character a TLA+ string cannot hold is written U+hhhh.     *)
(* JavaScript runs every method to completion,                             *)
(* so each method is one action; the only step that escapes a call is the  *)
(* settlement of the promise fetch() returned.                             *)
(***************************************************************************)
EXTENDS Integers, Sequences, FiniteSets, TLC

VARIABLES
    blacklistTags,   \* __internalGlobalConfig.filter.blacklistTags
    whitelistTags,   \* __internalGlobalConfig.filter.whitelistTags
    loggers,         \* the constructed ComfyLogger instances, by identity
    inflight,        \* fetch() promises not yet settled
    written,         \* history: per logger, the last value given to each option
    lastCall         \* the last operation, its inputs and what it did

vars == <<blacklistTags, whitelistTags, loggers, inflight, written, lastCall>>

----------------------------------------------------------------------------
(* Bounds of the model                                                     *)

MaxLoggers == 2
MaxListeners == 3
MaxTransformers == 2
MaxInflight == 2
MaxArgs == 2

----------------------------------------------------------------------------
(* Values and text                                                         *)

\* ANSI.STYLE.reset of util/ansi.js, one token
RESET == "ESC[0m"

\* another SGR escape sequence (ANSI.FG.Red), one token
RED == "ESC[31m"

\* the other codes the level methods use (ANSI.STYLE.bold, ANSI.FG.Green,
\* Yellow, Cyan, White, BrightBlue), one token each
BOLD == "ESC[1m"
GREEN == "ESC[32m"
YELLOW == "ESC[33m"
CYAN == "ESC[36m"
WHITE == "ESC[37m"
BRIGHT_BLUE == "ESC[94m"

\* the white space and line terminators String.prototype.trim removes
Whitespace ==
    {" ", "\n", "\t", "\r", "\f", "U+000B", "U+00A0", "U+FEFF", "U+1680",
     "U+2000", "U+2001", "U+2002", "U+2003", "U+2004", "U+2005", "U+2006",
     "U+2007", "U+2008", "U+2009", "U+200A", "U+2028", "U+2029", "U+202F",
     "U+205F", "U+3000"}

\* JavaScript values that can be passed to log
StringValue(t) == [kind |-> "string", text |-> t]
\* FunctionValue(t) is the closure () => text over text = t; StyleValue(code)
\* is makeStyle(code), whose toString gives the code
FunctionValue(t) == [kind |-> "function", text |-> t]
StyleValue(code) == [kind |-> "style", text |-> <<code>>]
UndefinedValue == [kind |-> "undefined", text |-> <<>>]
NullValue == [kind |-> "null", text |-> <<>>]

\* typeof val === 'function'
Callable(val) == val.kind \in {"function", "style"}

\* the source text of the closure, which Function.prototype.toString gives
ArrowSource == <<"(", ")", " ", "=", ">", " ", "t", "e", "x", "t">>

\* String(val): a function is converted with its toString
String(val) ==
    CASE val.kind = "string" -> val.text
      [] val.kind = "undefined" -> <<"u", "n", "d", "e", "f", "i", "n", "e", "d">>
      [] val.kind = "null" -> <<"n", "u", "l", "l">>
      [] val.kind = "function" -> ArrowSource
      [] OTHER -> val.text

\* typeof val === 'function' ? val() : String(val)
RenderValue(val) ==
    IF Callable(val) THEN val.text ELSE String(val)

\* how many of the values are callables
RECURSIVE CountFunctions(_)
CountFunctions(vals) ==
    IF vals = <<>> THEN 0
    ELSE (IF Callable(Head(vals)) THEN 1 ELSE 0) + CountFunctions(Tail(vals))

\* Array.prototype.join on an array of texts
RECURSIVE Join(_, _)
Join(texts, separator) ==
    IF texts = <<>> THEN <<>>
    ELSE IF Len(texts) = 1 THEN texts[1]
    ELSE texts[1] \o separator \o Join(Tail(texts), separator)

\* String.prototype.trimStart
RECURSIVE trimStart(_)
trimStart(t) ==
    IF t # <<>> /\ Head(t) \in Whitespace THEN trimStart(Tail(t)) ELSE t

\* String.prototype.trimEnd
RECURSIVE trimEnd(_)
trimEnd(t) ==
    IF t # <<>> /\ t[Len(t)] \in Whitespace THEN trimEnd(SubSeq(t, 1, Len(t) - 1)) ELSE t

\* the digits of the notation U+hhhh
HexDigits ==
    {"0", "1", "2", "3", "4", "5", "6", "7", "8", "9", "A", "B", "C", "D", "E", "F"}

\* the characters of a token from its k-th position on: ESC, BEL and U+
\* with four hexadecimal digits stand for one character each, every other
\* letter for itself
RECURSIVE charsOf(_, _)
charsOf(token, k) ==
    IF k > Len(token) THEN <<>>
    ELSE IF k + 2 <= Len(token) /\ SubSeq(token, k, k + 2) \in {"ESC", "BEL"}
         THEN <<SubSeq(token, k, k + 2)>> \o charsOf(token, k + 3)
    ELSE IF /\ k + 5 <= Len(token) /\ SubSeq(token, k, k + 1) = "U+"
            /\ \A d \in (k + 2)..(k + 5) : SubSeq(token, d, d) \in HexDigits
         THEN <<SubSeq(token, k, k + 5)>> \o charsOf(token, k + 6)
    ELSE <<SubSeq(token, k, k)>> \o charsOf(token, k + 1)

\* the characters of a text, one token each
RECURSIVE characters(_)
characters(msg) ==
    IF msg = <<>> THEN <<>> ELSE charsOf(Head(msg), 1) \o characters(Tail(msg))

\* [0-9;]*m from position j: the position of the m, or 0 without a match
RECURSIVE sgrEnd(_, _)
sgrEnd(c, j) ==
    IF j > Len(c) THEN 0
    ELSE IF c[j] \in {"0", "1", "2", "3", "4", "5", "6", "7", "8", "9", ";"}
         THEN sgrEnd(c, j + 1)
    ELSE IF c[j] = "m" THEN j ELSE 0

\* .*?[\u0007] from position j: the position of the first BEL when no line
\* terminator stands before it, or 0 without a match
RECURSIVE linkEnd(_, _)
linkEnd(c, j) ==
    IF j > Len(c) THEN 0
    ELSE IF c[j] = "BEL" THEN j
    ELSE IF c[j] \in {"\n", "\r", "U+2028", "U+2029"} THEN 0
    ELSE linkEnd(c, j + 1)

\* /\x1b(\[[0-9;]*m|]8;;.*?[\u0007]|]8;;[\u0007])/ at position i: the
\* position of the last character matched, or 0 without a match
matchEnd(c, i) ==
    IF c[i] # "ESC" THEN 0
    ELSE IF i + 1 <= Len(c) /\ c[i + 1] = "[" THEN sgrEnd(c, i + 2)
    ELSE IF i + 4 <= Len(c) /\ SubSeq(c, i + 1, i + 4) = <<"]", "8", ";", ";">>
         THEN linkEnd(c, i + 5)
    ELSE 0

\* replace(pattern, '') with the g flag, from position i on
RECURSIVE replaceFrom(_, _)
replaceFrom(c, i) ==
    IF i > Len(c) THEN <<>>
    ELSE IF matchEnd(c, i) > 0 THEN replaceFrom(c, matchEnd(c, i) + 1)
    ELSE <<c[i]>> \o replaceFrom(c, i + 1)

\* msg.replace(/\x1b(\[[0-9;]*m|]8;;.*?[\u0007]|]8;;[\u0007])/g, ''): the
\* pattern runs over the characters of the whole text, and what is left is
\* given character by character
stripAnsi(msg) == replaceFrom(characters(msg), 1)

----------------------------------------------------------------------------
(* ComfyLogger.#render                                                     *)

\* the reduce over the template's parts: acc + part + str, with
\* part = '' when values[i - 1] is undefined
RECURSIVE renderTemplate(_, _, _, _)
renderTemplate(strings, values, i, acc) ==
    IF i > Len(strings) THEN acc
    ELSE LET part == IF i - 1 >= 1 /\ i - 1 <= Len(values)
                        /\ values[i - 1].kind # "undefined"
                     THEN RenderValue(values[i - 1])
                     ELSE <<>>
         IN renderTemplate(strings, values, i + 1, acc \o part \o strings[i])

\* [strings, ...values].map(...).join(separator): without arguments strings
\* is undefined and the array is [undefined]
renderOrdinary(args, autoSpaceBetween) ==
    LET separator == IF autoSpaceBetween THEN <<" ">> ELSE <<>>
        all == IF args = <<>> THEN <<UndefinedValue>> ELSE args
    IN Join([k \in 1..Len(all) |-> RenderValue(all[k])], separator)

\* call = [template, strings, args]: a tagged-template call carries its
\* literal parts in strings and the interpolated values in args; an
\* ordinary call carries all its arguments in args
render(call, options) ==
    IF call.template
    THEN renderTemplate(call.strings, call.args, 1, <<>>)
    ELSE renderOrdinary(call.args, options.autoSpaceBetween)

\* callables #render invokes: in a template the values that stand between
\* two parts, in an ordinary call every argument
renderInvoked(call) ==
    IF call.template
    THEN LET holes == Len(call.strings) - 1
         IN CountFunctions(SubSeq(call.args, 1,
                                  IF Len(call.args) < holes THEN Len(call.args) ELSE holes))
    ELSE CountFunctions(call.args)

----------------------------------------------------------------------------
(* ComfyLoggerSettings: the process-wide tag filter registry               *)

Tags == {"net", "db"}

\* ComfyLoggerSettings.isTagBlacklisted
isTagBlacklisted(tag) == tag \in blacklistTags

\* ComfyLoggerSettings.isTagWhitelisted
isTagWhitelisted(tag) == tag \in whitelistTags

\* a registry that is rebuilt from the tags given instead of added to
addAllReplacing(set, tags) == {tags[k] : k \in 1..Len(tags)}

\* Set.prototype.add for every element of an array, in order
RECURSIVE addAll(_, _)
addAll(set, tags) ==
    IF tags = <<>> THEN set ELSE addAll(set \cup {Head(tags)}, Tail(tags))

----------------------------------------------------------------------------
(* ComfyLogger: configuration, listeners, transformers                     *)

\* the field initialiser of ComfyLogger.options, from sharedGlobalConfig
DefaultOptions ==
    [autoSpaceBetween |-> TRUE,
     timestampFormat |-> "HH:mm:ss",
     externalLogging |-> <<>>,
     console |-> TRUE,
     tags |-> <<>>,
     logErrorsToConsole |-> TRUE]

\* { ...a, ...b }
Spread(a, b) ==
    [f \in DOMAIN a \cup DOMAIN b |-> IF f \in DOMAIN b THEN b[f] ELSE a[f]]

\* a boolean property read in a condition: an absent property is undefined
Truthy(options, f) == f \in DOMAIN options /\ options[f]

\* a string property read in a condition: absent or empty is falsy
TruthyString(options, f) == f \in DOMAIN options /\ options[f] # ""

\* the log listeners the model registers; Throws(fn): fn throws when called
ListenerFns == {"f", "g", "h"}
Throws(fn) == fn = "g"

\* listeners that call back into the logger from inside their callback:
\* "unsub" calls removeEventListener on itself, "kick" calls it on "f", and
\* "sub" calls addEventListener("log", h)
ReentrantFns == {"unsub", "kick", "sub"}
Removes(fn) == IF fn = "unsub" THEN <<"unsub">> ELSE IF fn = "kick" THEN <<"f">> ELSE <<>>
Adds(fn) == IF fn = "sub" THEN <<"h">> ELSE <<>>

\* the transformers the model registers and what each does to the buffer
TransformerFns == {"bang", "pad"}
Transform(t, buffer) ==
    IF t = "bang" THEN buffer \o <<"!">>
    ELSE IF t = "pad" THEN <<" ">> \o buffer \o <<" ">>
    ELSE buffer

\* a transformer that throws when the buffer holds an "x" and returns the
\* buffer as it is otherwise
ThrowingTransformerFns == {"boom"}
TransformThrows(t, buffer) ==
    t \in ThrowingTransformerFns /\ \E k \in 1..Len(buffer) : buffer[k] = "x"

\* one entry of the order in which a log call does things
Event(step, fn, input, output) ==
    [step |-> step, fn |-> fn, input |-> input, output |-> output]

\* a transformer loop that runs from the last registered to the first
RECURSIVE runTransformersReversed(_, _, _, _)
runTransformersReversed(transformers, i, step, acc) ==
    IF i > Len(transformers) THEN acc
    ELSE LET transform == transformers[Len(transformers) + 1 - i]
         IN IF TransformThrows(transform, acc.result)
            THEN [acc EXCEPT
                     !.trace = Append(@, Event(step, transform, acc.result, <<>>)),
                     !.threw = TRUE]
            ELSE runTransformersReversed(transformers, i + 1, step,
                     [acc EXCEPT
                         !.result = Transform(transform, @),
                         !.trace = Append(@, Event(step, transform, acc.result,
                                                   Transform(transform, acc.result)))])

\* a transformer loop that catches what a transformer throws and goes on
RECURSIVE runTransformersSwallowing(_, _, _, _)
runTransformersSwallowing(transformers, i, step, acc) ==
    IF i > Len(transformers) THEN acc
    ELSE LET transform == transformers[i]
             output == IF TransformThrows(transform, acc.result) THEN acc.result
                       ELSE Transform(transform, acc.result)
         IN runTransformersSwallowing(transformers, i + 1, step,
                [acc EXCEPT
                    !.result = output,
                    !.trace = Append(@, Event(step, transform, acc.result, output))])

\* for (const transform of transformers) result = transform(result), from
\* the i-th on: a throw ends the loop and leaves the call
RECURSIVE runTransformers(_, _, _, _)
runTransformers(transformers, i, step, acc) ==
    IF i > Len(transformers) THEN acc
    ELSE LET transform == transformers[i]
         IN IF TransformThrows(transform, acc.result)
            THEN [acc EXCEPT
                     !.trace = Append(@, Event(step, transform, acc.result, <<>>)),
                     !.threw = TRUE]
            ELSE runTransformers(transformers, i + 1, step,
                     [acc EXCEPT
                         !.result = Transform(transform, @),
                         !.trace = Append(@, Event(step, transform, acc.result,
                                                   Transform(transform, acc.result)))])

\* the state of a new instance before the constructor body runs
NewLogger ==
    [options |-> DefaultOptions,
     eventListeners |-> <<>>,
     before |-> <<>>,
     after |-> <<>>,
     classes |-> {}]

\* the members of Object.prototype
ObjectPrototypeNames ==
    {"constructor", "__defineGetter__", "__defineSetter__", "hasOwnProperty",
     "__lookupGetter__", "__lookupSetter__", "isPrototypeOf",
     "propertyIsEnumerable", "toString", "valueOf", "__proto__", "toLocaleString"}

\* the names a logger inherits: the members of ComfyLogger.prototype and of
\* Object.prototype
PrototypeNames ==
    {"constructor", "tags", "transformBefore", "transformAfter",
     "addEventListener", "removeEventListener", "configure", "class", "log",
     "timestamp", "error", "bad", "warn", "info", "debug", "ok", "good",
     "neutral"} \cup ObjectPrototypeNames

\* Object.prototype.hasOwnProperty.call(this, name): the field options and
\* the styles class has attached; classes is the set of [name, styleFn]
hasOwnProperty(this, name) ==
    name = "options" \/ \E c \in this.classes : c.name = name

\* a collision test that looks at own properties only
inThisOwnOnly(this, name) == hasOwnProperty(this, name)

\* name in this
inThis(this, name) == name \in PrototypeNames \/ hasOwnProperty(this, name)

\* ComfyLogger.#shouldLog over this.options.tags
RECURSIVE shouldLogFrom(_, _)
shouldLogFrom(tags, i) ==
    IF i > Len(tags) THEN TRUE
    ELSE LET tag == tags[i]
             whitelisted == IF isTagBlacklisted(tag) /\ ~isTagWhitelisted(tag)
                            THEN TRUE ELSE FALSE
         IN IF isTagBlacklisted(tag) /\ ~whitelisted
            THEN FALSE
            ELSE shouldLogFrom(tags, i + 1)

shouldLog(options) ==
    shouldLogFrom(IF "tags" \in DOMAIN options THEN options.tags ELSE <<>>, 1)

\* a removal that stops at the first match of the backward scan
RECURSIVE removeLast(_, _)
removeLast(listeners, callback) ==
    IF listeners = <<>> THEN <<>>
    ELSE IF listeners[Len(listeners)] = callback
         THEN SubSeq(listeners, 1, Len(listeners) - 1)
         ELSE Append(removeLast(SubSeq(listeners, 1, Len(listeners) - 1), callback),
                     listeners[Len(listeners)])

\* listeners.splice(i, 1) for every i with listeners[i] === callback
removeAll(listeners, callback) ==
    SelectSeq(listeners, LAMBDA x : x # callback)

\* foundListeners: one entry per occurrence removed
RECURSIVE countOf(_, _)
countOf(listeners, callback) ==
    IF listeners = <<>> THEN 0
    ELSE (IF Head(listeners) = callback THEN 1 ELSE 0) + countOf(Tail(listeners), callback)

----------------------------------------------------------------------------
(* ComfyLogger.log                                                         *)

\* the listener list after the callback of onLog has run: the callback may
\* have called removeEventListener (splice in place) or addEventListener
\* (push) on the list the loop of log is iterating
afterCallback(onLog, listeners) ==
    (IF Removes(onLog) # <<>> THEN removeAll(listeners, Removes(onLog)[1])
     ELSE listeners) \o Adds(onLog)

\* what the callback of onLog writes with console.warn: removeEventListener
\* warns when it finds nothing to remove
warnedInCallback(onLog, listeners) ==
    IF Removes(onLog) # <<>> /\ countOf(listeners, Removes(onLog)[1]) = 0
    THEN <<"Listener not found for removal:">> ELSE <<>>

\* a listener loop without the try/catch: it ends at the first throw
RECURSIVE dispatchUncaught(_, _, _, _)
dispatchUncaught(listeners, i, e, acc) ==
    IF i > Len(listeners) THEN [acc EXCEPT !.remaining = listeners]
    ELSE LET onLog == listeners[i]
             called == [acc EXCEPT
                           !.dispatched = Append(@, [fn |-> onLog, e |-> e]),
                           !.consoleWarn = @ \o warnedInCallback(onLog, listeners)]
         IN IF Throws(onLog)
            THEN [called EXCEPT !.remaining = afterCallback(onLog, listeners)]
            ELSE dispatchUncaught(afterCallback(onLog, listeners), i + 1, e, called)

\* the listener loop, for (const listener of listeners), from the i-th
\* position on: the iterator reads the list as it is at each step, so what
\* a callback removed or added is seen by the steps after it; a throw is
\* caught and reported with console.error, and the loop goes on
RECURSIVE dispatch(_, _, _, _)
dispatch(listeners, i, e, acc) ==
    IF i > Len(listeners) THEN [acc EXCEPT !.remaining = listeners]
    ELSE LET onLog == listeners[i]
             called == [acc EXCEPT
                           !.dispatched = Append(@, [fn |-> onLog, e |-> e]),
                           !.consoleWarn = @ \o warnedInCallback(onLog, listeners)]
         IN dispatch(afterCallback(onLog, listeners), i + 1, e,
                     IF Throws(onLog)
                     THEN [called EXCEPT
                              !.consoleError = Append(@, "Error in log event listener:")]
                     ELSE called)

\* the request fetch() is given; method defaults to POST
request(l, externalLogging, stripped) ==
    [logger |-> l,
     url |-> externalLogging.url,
     method |-> IF externalLogging.method = "" THEN "POST" ELSE externalLogging.method,
     message |-> stripped]

\* if (this.options.console) console.log(finalMessage)
consoleWrite(options, finalMessage) ==
    IF Truthy(options, "console") THEN <<finalMessage>> ELSE <<>>

\* a forward that is issued only when the console is enabled
forwardWhenConsole(l, options, stripped) ==
    IF options.externalLogging # <<>> /\ Truthy(options, "console")
    THEN <<request(l, options.externalLogging[1], stripped)>>
    ELSE <<>>

\* if (this.options.externalLogging) fetch(url, ...): the requests issued
forward(l, options, stripped) ==
    IF options.externalLogging # <<>>
    THEN <<request(l, options.externalLogging[1], stripped)>>
    ELSE <<>>

\* what a call has done when it returns
NoCall ==
    [op |-> "none", logger |-> 0, call |-> <<>>, partial |-> <<>>, fn |-> "",
     tags |-> <<>>, returned |-> "undefined", result |-> <<>>, invoked |-> 0,
     found |-> 0, name |-> "", trace |-> <<>>, registered |-> <<>>,
     remaining |-> <<>>,
     ranBefore |-> <<>>, ranAfter |-> <<>>, consoleLog |-> <<>>,
     consoleError |-> <<>>, consoleWarn |-> <<>>, dispatched |-> <<>>,
     forwarded |-> <<>>, onError |-> 0, threw |-> FALSE]

\* the functions of the entries of a trace that belong to a step
RECURSIVE fnsOfStep(_, _)
fnsOfStep(trace, step) ==
    IF trace = <<>> THEN <<>>
    ELSE (IF Head(trace).step = step THEN <<Head(trace).fn>> ELSE <<>>)
         \o fnsOfStep(Tail(trace), step)

\* let finalMessage = result + ANSI.STYLE.reset
appendReset(acc) ==
    [acc EXCEPT
        !.result = @ \o <<RESET>>,
        !.trace = Append(@, Event("reset", "", acc.result, acc.result \o <<RESET>>))]

\* #render, the before transformers, the reset code, the after transformers
transformed(this, call) ==
    LET before == runTransformers(this.before, 1, "before",
                                  [result |-> render(call, this.options),
                                   trace |-> <<>>, threw |-> FALSE])
    IN IF before.threw THEN before
       ELSE runTransformers(this.after, 1, "after", appendReset(before))

\* if (trimBefore) trimStart(); if (trimAfter) trimEnd()
trimmed(options, text) ==
    LET trimmedStart == IF TruthyString(options, "trimBefore")
                        THEN trimStart(text) ELSE text
    IN IF TruthyString(options, "trimAfter") THEN trimEnd(trimmedStart) ELSE trimmedStart

\* what is known of a log call once its transformers have run
entered(l, this, call, after) ==
    [NoCall EXCEPT
        !.op = "log", !.logger = l, !.call = <<call>>,
        !.invoked = renderInvoked(call),
        !.registered = this.eventListeners,
        !.remaining = this.eventListeners,
        !.trace = after.trace,
        !.ranBefore = fnsOfStep(after.trace, "before"),
        !.ranAfter = fnsOfStep(after.trace, "after")]

\* the order of the steps from the trimming to the return
deliveryTrace(text, finalMessage, shown, dispatched, forwarded) ==
    <<Event("trim", "", text, finalMessage)>>
    \o [k \in 1..Len(shown) |-> Event("console", "", shown[k], <<>>)]
    \o [k \in 1..Len(dispatched) |-> Event("listener", dispatched[k].fn, finalMessage, <<>>)]
    \o [k \in 1..Len(forwarded) |-> Event("fetch", "", forwarded[k].message, <<>>)]
    \o <<Event("return", "", <<>>, finalMessage)>>

\* the return of log: the listeners have been called with resultObj
returned(l, this, begun, text, resultObj, heard) ==
    [begun EXCEPT
        !.trace = @ \o deliveryTrace(text, resultObj.output,
                                     consoleWrite(this.options, resultObj.output),
                                     heard.dispatched,
                                     forward(l, this.options, resultObj.stripped)),
        !.consoleLog = consoleWrite(this.options, resultObj.output),
        !.dispatched = heard.dispatched,
        !.consoleError = heard.consoleError,
        !.consoleWarn = heard.consoleWarn,
        !.remaining = heard.remaining,
        !.forwarded = forward(l, this.options, resultObj.stripped),
        !.returned = "result", !.result = <<resultObj>>]

\* console.log, resultObj, the listener loop, fetch, return
delivered(l, this, begun, text, finalMessage) ==
    LET resultObj == [output |-> finalMessage, stripped |-> stripAnsi(finalMessage)]
    IN returned(l, this, begun, text, resultObj,
                dispatch(this.eventListeners, 1, resultObj,
                         [dispatched |-> <<>>, consoleError |-> <<>>,
                          consoleWarn |-> <<>>, remaining |-> <<>>]))

\* the body of log once the transformers have run or one of them has thrown
concluded(l, this, call, after) ==
    IF after.threw
    THEN [entered(l, this, call, after) EXCEPT !.threw = TRUE]
    ELSE delivered(l, this, entered(l, this, call, after), after.result,
                   trimmed(this.options, after.result))

\* the body of log after the #shouldLog test
pipeline(l, call) == concluded(l, loggers[l], call, transformed(loggers[l], call))

\* log(strings, ...values)
log(l, call) ==
    IF ~shouldLog(loggers[l].options)
    THEN [NoCall EXCEPT
             !.op = "log", !.logger = l, !.call = <<call>>,
             !.registered = loggers[l].eventListeners,
             !.remaining = loggers[l].eventListeners]
    ELSE pipeline(l, call)

----------------------------------------------------------------------------
(* Operations                                                              *)

Ids == 1..Len(loggers)

\* ComfyLoggerSettings.blacklistTag(tag) with a string
BlacklistTag(tag) ==
    /\ blacklistTags' = blacklistTags \cup {tag}
    /\ lastCall' = [NoCall EXCEPT !.op = "blacklistTag", !.tags = <<tag>>]
    /\ UNCHANGED <<whitelistTags, loggers, inflight, written>>

\* ComfyLoggerSettings.blacklistTag(tags) with an array, and blacklistTags(tags)
BlacklistTags(tags) ==
    /\ blacklistTags' = addAll(blacklistTags, tags)
    /\ lastCall' = [NoCall EXCEPT !.op = "blacklistTags", !.tags = tags]
    /\ UNCHANGED <<whitelistTags, loggers, inflight, written>>

\* ComfyLoggerSettings.whitelistTag(tag) with a string
WhitelistTag(tag) ==
    /\ whitelistTags' = whitelistTags \cup {tag}
    /\ lastCall' = [NoCall EXCEPT !.op = "whitelistTag", !.tags = <<tag>>]
    /\ UNCHANGED <<blacklistTags, loggers, inflight, written>>

\* ComfyLoggerSettings.whitelistTag(tags) with an array, and whitelistTags(tags)
WhitelistTags(tags) ==
    /\ whitelistTags' = addAll(whitelistTags, tags)
    /\ lastCall' = [NoCall EXCEPT !.op = "whitelistTags", !.tags = tags]
    /\ UNCHANGED <<blacklistTags, loggers, inflight, written>>

\* ComfyLoggerSettings.isTagBlacklisted(tag)
IsTagBlacklisted(tag) ==
    /\ lastCall' = [NoCall EXCEPT
                       !.op = "isTagBlacklisted", !.tags = <<tag>>,
                       !.returned = IF isTagBlacklisted(tag) THEN "true" ELSE "false"]
    /\ UNCHANGED <<blacklistTags, whitelistTags, loggers, inflight, written>>

\* ComfyLoggerSettings.isTagWhitelisted(tag)
IsTagWhitelisted(tag) ==
    /\ lastCall' = [NoCall EXCEPT
                       !.op = "isTagWhitelisted", !.tags = <<tag>>,
                       !.returned = IF isTagWhitelisted(tag) THEN "true" ELSE "false"]
    /\ UNCHANGED <<blacklistTags, whitelistTags, loggers, inflight, written>>

\* the history of writes: the fields given now, over those given before
LastWritten(history, given) ==
    [f \in DOMAIN history \cup DOMAIN given |->
        IF f \in DOMAIN given THEN given[f] ELSE history[f]]

\* a merge in which the fields the logger already has win
configureKeeping(this, options) ==
    [this EXCEPT !.options = Spread(options, this.options)]

\* this.options = { ...this.options, ...options }
configure(this, options) ==
    [this EXCEPT !.options = Spread(this.options, options)]

\* this.#internal.eventListeners[event].push(listener)
addEventListener(this, listener) ==
    [this EXCEPT !.eventListeners = Append(@, listener)]

\* for (const listener of options.listeners.log) this.addEventListener('log', listener)
RECURSIVE addEventListeners(_, _)
addEventListeners(this, listeners) ==
    IF listeners = <<>> THEN this
    ELSE addEventListeners(addEventListener(this, Head(listeners)), Tail(listeners))

\* new ComfyLogger(options): options is a partial configuration that may
\* carry the key listeners; configure merges every key it is given
Construct(options) ==
    /\ Len(loggers) < MaxLoggers
    /\ LET configured == configure(NewLogger, options)
           this == IF "listeners" \in DOMAIN options
                   THEN addEventListeners(configured, options.listeners)
                   ELSE configured
       IN /\ loggers' = Append(loggers, this)
          /\ written' = Append(written, LastWritten(DefaultOptions, options))
    /\ lastCall' = [NoCall EXCEPT
                       !.op = "new", !.logger = Len(loggers) + 1, !.partial = <<options>>]
    /\ UNCHANGED <<blacklistTags, whitelistTags, inflight>>

\* logger.configure(options)
Configure(l, options) ==
    /\ loggers' = [loggers EXCEPT ![l] = configure(@, options)]
    /\ written' = [written EXCEPT ![l] = LastWritten(@, options)]
    /\ lastCall' = [NoCall EXCEPT !.op = "configure", !.logger = l, !.partial = <<options>>]
    /\ UNCHANGED <<blacklistTags, whitelistTags, inflight>>

\* logger.addEventListener('log', listener)
AddEventListener(l, listener) ==
    /\ Len(loggers[l].eventListeners) < MaxListeners
    /\ loggers' = [loggers EXCEPT ![l] = addEventListener(@, listener)]
    /\ lastCall' = [NoCall EXCEPT !.op = "addEventListener", !.logger = l, !.fn = listener]
    /\ UNCHANGED <<blacklistTags, whitelistTags, inflight, written>>

\* logger.removeEventListener(callback)
RemoveEventListener(l, callback) ==
    LET foundListeners == countOf(loggers[l].eventListeners, callback)
    IN /\ loggers' = [loggers EXCEPT
                         ![l].eventListeners = removeAll(@, callback)]
       /\ lastCall' = [NoCall EXCEPT
                          !.op = "removeEventListener", !.logger = l, !.fn = callback,
                          !.found = foundListeners,
                          !.consoleWarn = IF foundListeners = 0
                                          THEN <<"Listener not found for removal:">>
                                          ELSE <<>>,
                          !.returned = IF foundListeners > 0 THEN "true" ELSE "false"]
       /\ UNCHANGED <<blacklistTags, whitelistTags, inflight, written>>

\* logger.tags = value: the setter throws
SetTags(l, value) ==
    /\ lastCall' = [NoCall EXCEPT
                       !.op = "setTags", !.logger = l, !.tags = value, !.threw = TRUE]
    /\ UNCHANGED <<blacklistTags, whitelistTags, loggers, inflight, written>>

\* logger.class(name, styleFn)
Class(l, name, styleFn) ==
    LET this == loggers[l]
        conflicts == inThis(this, name) \/ hasOwnProperty(this, name)
    IN /\ loggers' = IF conflicts THEN loggers
                     ELSE [loggers EXCEPT
                              ![l].classes = @ \cup {[name |-> name, styleFn |-> styleFn]}]
       /\ lastCall' = [NoCall EXCEPT
                          !.op = "class", !.logger = l, !.name = name, !.fn = styleFn,
                          !.threw = conflicts]
       /\ UNCHANGED <<blacklistTags, whitelistTags, inflight, written>>

\* logger.transformBefore(args) with one function or an array of functions
TransformBefore(l, args) ==
    /\ Len(loggers[l].before) + Len(args) <= MaxTransformers
    /\ loggers' = [loggers EXCEPT ![l].before = @ \o args]
    /\ lastCall' = [NoCall EXCEPT !.op = "transformBefore", !.logger = l, !.tags = args]
    /\ UNCHANGED <<blacklistTags, whitelistTags, inflight, written>>

\* logger.transformAfter(args) with one function or an array of functions
TransformAfter(l, args) ==
    /\ Len(loggers[l].after) + Len(args) <= MaxTransformers
    /\ loggers' = [loggers EXCEPT ![l].after = @ \o args]
    /\ lastCall' = [NoCall EXCEPT !.op = "transformAfter", !.logger = l, !.tags = args]
    /\ UNCHANGED <<blacklistTags, whitelistTags, inflight, written>>

\* logger.log(...): the call runs to its return or to the throw of a
\* transformer; the request it issued, if any, stays in flight, and the
\* listener list is what the callbacks have left
Log(l, call) ==
    LET done == log(l, call)
    IN /\ Len(inflight) + Len(done.forwarded) <= MaxInflight
       /\ Len(done.remaining) <= MaxListeners
       /\ lastCall' = done
       /\ inflight' = inflight \o done.forwarded
       /\ loggers' = [loggers EXCEPT ![l].eventListeners = done.remaining]
       /\ UNCHANGED <<blacklistTags, whitelistTags, written>>

\* makeStyle(code)(text): the code alone without a text, else the text
\* between the code and the reset code
makeStyle(code, text) ==
    IF text.kind = "undefined" THEN <<code>>
    ELSE <<code>> \o String(text) \o <<RESET>>

\* the call of log a level method makes: log(bold(colour(strings)), ...values)
levelCall(code, args) ==
    LET strings == IF args = <<>> THEN UndefinedValue ELSE Head(args)
        values == IF args = <<>> THEN <<>> ELSE Tail(args)
    IN [template |-> FALSE, strings |-> <<>>,
        args |-> <<StringValue(makeStyle(BOLD, StringValue(makeStyle(code, strings))))>>
                 \o values]

\* logger.error(strings, ...values): log(bold(red("ERROR:")), strings, ...values)
Error(l, args) ==
    LET strings == IF args = <<>> THEN UndefinedValue ELSE Head(args)
        values == IF args = <<>> THEN <<>> ELSE Tail(args)
        label == StringValue(<<"E", "R", "R", "O", "R", ":">>)
        call == [template |-> FALSE, strings |-> <<>>,
                 args |-> <<StringValue(makeStyle(BOLD, StringValue(makeStyle(RED, label)))),
                            strings>> \o values]
    IN \E made \in {call} : Log(l, made)

\* logger.bad(strings, ...values)
Bad(l, args) == \E call \in {levelCall(RED, args)} : Log(l, call)

\* logger.warn(strings, ...values)
Warn(l, args) == \E call \in {levelCall(YELLOW, args)} : Log(l, call)

\* logger.info(strings, ...values)
Info(l, args) == \E call \in {levelCall(BRIGHT_BLUE, args)} : Log(l, call)

\* logger.debug(strings, ...values)
Debug(l, args) == \E call \in {levelCall(CYAN, args)} : Log(l, call)

\* logger.ok(strings, ...values)
Ok(l, args) == \E call \in {levelCall(GREEN, args)} : Log(l, call)

\* logger.good(strings, ...values)
Good(l, args) == \E call \in {levelCall(GREEN, args)} : Log(l, call)

\* logger.neutral(strings, ...values)
Neutral(l, args) == \E call \in {levelCall(WHITE, args)} : Log(l, call)

\* a .catch callback that reports without reading logErrorsToConsole
FetchFailReporting(i) ==
    /\ inflight' = [k \in 1..(Len(inflight) - 1) |->
                       IF k < i THEN inflight[k] ELSE inflight[k + 1]]
    /\ lastCall' = [NoCall EXCEPT
                       !.op = "fetchFail", !.logger = inflight[i].logger,
                       !.forwarded = <<inflight[i]>>,
                       !.consoleError = <<"Error in external logging:">>]
    /\ UNCHANGED <<blacklistTags, whitelistTags, loggers, written>>

\* the promise of a request rejects: the .catch callback of log runs, reading
\* this.options at that time; nothing reads externalLogging.onError
FetchFail(i) ==
    LET this == loggers[inflight[i].logger]
    IN /\ inflight' = [k \in 1..(Len(inflight) - 1) |->
                          IF k < i THEN inflight[k] ELSE inflight[k + 1]]
       /\ lastCall' = [NoCall EXCEPT
                          !.op = "fetchFail", !.logger = inflight[i].logger,
                          !.forwarded = <<inflight[i]>>,
                          !.consoleError = IF Truthy(this.options, "logErrorsToConsole")
                                           THEN <<"Error in external logging:">>
                                           ELSE <<>>]
       /\ UNCHANGED <<blacklistTags, whitelistTags, loggers, written>>

\* the promise of a request fulfils: nothing is attached to that outcome
FetchOk(i) ==
    /\ inflight' = [k \in 1..(Len(inflight) - 1) |->
                       IF k < i THEN inflight[k] ELSE inflight[k + 1]]
    /\ lastCall' = [NoCall EXCEPT
                       !.op = "fetchOk", !.logger = inflight[i].logger,
                       !.forwarded = <<inflight[i]>>]
    /\ UNCHANGED <<blacklistTags, whitelistTags, loggers, written>>

----------------------------------------------------------------------------
(* Inputs                                                                  *)

\* an externalLogging target; method "" stands for no method given
Target == [url |-> "http://collector/log", method |-> "", onError |-> TRUE]

TagLists == {<<>>, <<"net">>, <<"db">>, <<"net", "db">>, <<"db", "net">>}

\* partial configurations given to configure
PartialOptions ==
    {[console |-> FALSE],
     [console |-> TRUE, autoSpaceBetween |-> FALSE],
     [externalLogging |-> <<Target>>],
     [externalLogging |-> <<>>, logErrorsToConsole |-> TRUE],
     [logErrorsToConsole |-> FALSE],
     [trimBefore |-> "yes", trimAfter |-> "yes"],
     [tags |-> <<"net">>]}

\* options given to the constructor
ConstructorOptions ==
    {[tags |-> t, listeners |-> <<"f">>, externalLogging |-> <<Target>>] : t \in TagLists}
    \cup {[console |-> FALSE]}

\* names given to class: built-in members, the field options, fresh names
ClassNames ==
    {"log", "error", "tags", "toString", "__defineGetter__", "__lookupSetter__",
     "options", "accent", "loud"}

\* style functions given to class
StyleFns == {"bold", "red"}

OrdinaryCall(args) == [template |-> FALSE, strings |-> <<>>, args |-> args]
TemplateCall(strings, values) == [template |-> TRUE, strings |-> strings, args |-> values]

\* the command lines the process is started with
Argvs ==
    {<<"node", "app.js">>,
     <<"node", "app.js", "--blacklist-tags", "net">>,
     <<"node", "app.js", "--whitelist-tags", "db, net">>,
     <<"node", "app.js", "--whitelist-tags", "--blacklist-tags">>,
     <<"node", "app.js", "--blacklist-tags", "U+00A0net U+2028,db", "toString">>,
     <<"node", "app.js", "valueOf", "net">>}

\* the arguments given to the level methods: none, "a", "a" and red, a
\* closure, red
LevelArgs ==
    {<<>>, <<StringValue(<<"a">>)>>, <<StringValue(<<"a">>), StyleValue(RED)>>,
     <<FunctionValue(<<"a">>)>>, <<StyleValue(RED)>>}

\* log("a", red) and log`a${"b"}`
SomeCalls ==
    {OrdinaryCall(<<StringValue(<<"a">>), FunctionValue(<<RED>>)>>),
     TemplateCall(<<<<"a">>, <<>>>>, <<StringValue(<<"b">>)>>)}

----------------------------------------------------------------------------
(* Specification                                                           *)

\* String.prototype.trim on a text
trim(t) == trimEnd(trimStart(t))

\* the string whose characters are those of a text
RECURSIVE stringOf(_)
stringOf(t) == IF t = <<>> THEN "" ELSE Head(t) \o stringOf(Tail(t))

\* value.split(',') on the characters of value, from the k-th on, cur being
\* the piece begun
RECURSIVE split(_, _, _)
split(c, k, cur) ==
    IF k > Len(c) THEN <<cur>>
    ELSE IF c[k] = "," THEN <<cur>> \o split(c, k + 1, <<>>)
    ELSE split(c, k + 1, Append(cur, c[k]))

\* value.split(',').map(tag => tag.trim())
cliTags(value) ==
    LET tags == split(charsOf(value, 1), 1, <<>>)
    IN [k \in 1..Len(tags) |-> stringOf(trim(tags[k]))]

\* the arguments for which cliArgs[argument] is truthy: its two flags and,
\* cliArgs being an object literal, the members of Object.prototype
CliHandlerNames == {"--blacklist-tags", "--whitelist-tags"} \cup ObjectPrototypeNames

\* the inherited members that return when called as handler(val), this being
\* undefined: Object(val), "[object Undefined]", false for a string; every
\* other one throws a TypeError (__proto__ is not a function, the rest
\* convert this to an object)
CliHarmlessNames == {"constructor", "toString", "isPrototypeOf"}

\* the loop over process.argv from the i-th argument on: an argument that
\* names a handler takes the argument after it as its value, whatever that
\* is, and warns when it is the last argument; a throw ends the import
RECURSIVE cliFrom(_, _, _)
cliFrom(argv, i, acc) ==
    IF i > Len(argv) THEN acc
    ELSE IF argv[i] \notin CliHandlerNames
         THEN cliFrom(argv, i + 1, acc)
    ELSE IF i + 1 > Len(argv)
         THEN cliFrom(argv, i + 1,
                      [acc EXCEPT !.consoleWarn = Append(@, "Expected value after")])
    ELSE IF argv[i] = "--blacklist-tags"
         THEN cliFrom(argv, i + 1,
                      [acc EXCEPT !.blacklist = addAll(@, cliTags(argv[i + 1]))])
    ELSE IF argv[i] = "--whitelist-tags"
         THEN cliFrom(argv, i + 1,
                      [acc EXCEPT !.whitelist = addAll(@, cliTags(argv[i + 1]))])
    ELSE IF argv[i] \in CliHarmlessNames
         THEN cliFrom(argv, i + 1, acc)
    ELSE [acc EXCEPT !.threw = TRUE]

\* the state once the module is imported by a process started with argv:
\* the flags are read, then export const logger = new ComfyLogger(); when
\* the loop throws the import fails and there is no such state
Imported(argv) ==
    LET cli == cliFrom(argv, 1, [blacklist |-> {}, whitelist |-> {},
                                 consoleWarn |-> <<>>, threw |-> FALSE])
    IN /\ ~cli.threw
       /\ blacklistTags = cli.blacklist
       /\ whitelistTags = cli.whitelist
       /\ loggers = <<NewLogger>>
       /\ inflight = <<>>
       /\ written = <<DefaultOptions>>
       /\ lastCall = [NoCall EXCEPT !.consoleWarn = cli.consoleWarn]

Init == \E argv \in Argvs : Imported(argv)

\* a process started without the flags
InitWithoutFlags == Imported(<<"node", "app.js">>)

Next ==
    \/ \E tag \in Tags : BlacklistTag(tag)
    \/ \E tags \in TagLists : BlacklistTags(tags)
    \/ \E tag \in Tags : WhitelistTag(tag)
    \/ \E tags \in TagLists : WhitelistTags(tags)
    \/ \E tag \in Tags : IsTagBlacklisted(tag)
    \/ \E tag \in Tags : IsTagWhitelisted(tag)
    \/ \E options \in ConstructorOptions : Construct(options)
    \/ \E l \in Ids, options \in PartialOptions : Configure(l, options)
    \/ \E l \in Ids, fn \in ListenerFns : AddEventListener(l, fn)
    \/ \E l \in Ids, fn \in ListenerFns : RemoveEventListener(l, fn)
    \/ \E l \in Ids, t \in TransformerFns : TransformBefore(l, <<t>>)
    \/ \E l \in Ids, t \in TransformerFns : TransformAfter(l, <<t>>)
    \/ \E l \in Ids, tags \in TagLists : SetTags(l, tags)
    \/ \E l \in Ids, name \in ClassNames, styleFn \in StyleFns : Class(l, name, styleFn)
    \/ \E l \in Ids, call \in SomeCalls : Log(l, call)
    \/ \E l \in Ids, args \in LevelArgs : Error(l, args)
    \/ \E l \in Ids, args \in LevelArgs : Bad(l, args)
    \/ \E l \in Ids, args \in LevelArgs : Warn(l, args)
    \/ \E l \in Ids, args \in LevelArgs : Info(l, args)
    \/ \E l \in Ids, args \in LevelArgs : Debug(l, args)
    \/ \E l \in Ids, args \in LevelArgs : Ok(l, args)
    \/ \E l \in Ids, args \in LevelArgs : Good(l, args)
    \/ \E l \in Ids, args \in LevelArgs : Neutral(l, args)
    \/ \E i \in 1..Len(inflight) : FetchFail(i)
    \/ \E i \in 1..Len(inflight) : FetchOk(i)

Spec == Init /\ [][Next]_vars

----------------------------------------------------------------------------
(* The tag filter: the registry, loggers with tags, log                    *)

\* log("a", red)
FilterCall == OrdinaryCall(<<StringValue(<<"a">>), FunctionValue(<<RED>>)>>)

NextFilter ==
    \/ \E tag \in Tags : BlacklistTag(tag)
    \/ \E tags \in TagLists : BlacklistTags(tags)
    \/ \E tag \in Tags : WhitelistTag(tag)
    \/ \E tags \in TagLists : WhitelistTags(tags)
    \/ \E tag \in Tags : IsTagBlacklisted(tag)
    \/ \E tag \in Tags : IsTagWhitelisted(tag)
    \/ \E options \in ConstructorOptions : Construct(options)
    \/ \E l \in Ids : Configure(l, [tags |-> <<"net">>])
    \/ \E l \in Ids : Log(l, FilterCall)
    \/ \E i \in 1..Len(inflight) : FetchFail(i)
    \/ \E i \in 1..Len(inflight) : FetchOk(i)

SpecFilter == Init /\ [][NextFilter]_vars


Range(seq) == {seq[k] : k \in 1..Len(seq)}

\* the tags of the logger the last call was made on
TagsOfLastCall == Range(loggers[lastCall.logger].options.tags)

\* the listeners of the logger the last call was made on
ListenersOfLastCall == loggers[lastCall.logger].eventListeners

\* a log call that was suppressed did nothing and returned nothing
Suppressed(c) ==
    /\ c.returned = "undefined" /\ c.result = <<>> /\ c.invoked = 0
    /\ c.ranBefore = <<>> /\ c.ranAfter = <<>>
    /\ c.consoleLog = <<>> /\ c.consoleError = <<>>
    /\ c.dispatched = <<>> /\ c.forwarded = <<>>

\* C1: a log call on a logger with a tag that is blacklisted and not
\* whitelisted is suppressed: nothing is rendered, transformed, written,
\* dispatched or forwarded, and nothing is returned.
C1_BlacklistedTagSuppresses ==
    (/\ lastCall.op = "log"
     /\ \E tag \in TagsOfLastCall : tag \in blacklistTags /\ tag \notin whitelistTags)
    => Suppressed(lastCall)

\* C2: a log call on a logger whose blacklisted tags are all whitelisted
\* (no tags and no blacklisted tag included) is not suppressed: it
\* dispatches to the registered listeners and returns the result.
C2_WhitelistedTagsProceed ==
    (/\ lastCall.op = "log"
     /\ \A tag \in TagsOfLastCall : tag \in blacklistTags => tag \in whitelistTags)
    => /\ lastCall.returned = "result"
       /\ Len(lastCall.result) = 1
       /\ [k \in 1..Len(lastCall.dispatched) |-> lastCall.dispatched[k].fn]
              = ListenersOfLastCall

\* C9: the blacklist and the whitelist only grow; the membership queries and
\* log leave them as they are; the tags given to an add operation are in the
\* set afterwards, a query answers from the set as it is, and every log
\* call, on whichever logger, decides on the sets as they are at the call.
C9_RegistryOnlyGrows ==
    [][/\ blacklistTags \subseteq blacklistTags'
       /\ whitelistTags \subseteq whitelistTags'
       /\ lastCall'.op \in {"log", "isTagBlacklisted", "isTagWhitelisted"}
            => UNCHANGED <<blacklistTags, whitelistTags>>
       /\ lastCall'.op \in {"blacklistTag", "blacklistTags"}
            => Range(lastCall'.tags) \subseteq blacklistTags'
       /\ lastCall'.op \in {"whitelistTag", "whitelistTags"}
            => Range(lastCall'.tags) \subseteq whitelistTags'
       /\ lastCall'.op = "isTagBlacklisted"
            => (lastCall'.returned = "true" <=> lastCall'.tags[1] \in blacklistTags')
       /\ lastCall'.op = "isTagWhitelisted"
            => (lastCall'.returned = "true" <=> lastCall'.tags[1] \in whitelistTags')
       /\ lastCall'.op = "log"
            => (lastCall'.returned = "undefined"
                  <=> \E tag \in Range(loggers'[lastCall'.logger].options.tags) :
                         tag \in blacklistTags' /\ tag \in whitelistTags')
      ]_vars

\* the module's own logger, which exists before any tag is added, has a log
\* call decided by tags that were added since
C9_Witness ==
    /\ lastCall.op = "log" /\ lastCall.logger = 1
    /\ lastCall.returned = "undefined"
    /\ Len(loggers) > 1
    /\ TagsOfLastCall \subseteq blacklistTags \cap whitelistTags
    /\ TagsOfLastCall # {}


----------------------------------------------------------------------------
(* Dispatch: listeners, the console switch, the external forward           *)

DispatchOptions ==
    {[console |-> FALSE],
     [console |-> TRUE],
     [externalLogging |-> <<Target>>],
     [externalLogging |-> <<>>],
     [logErrorsToConsole |-> FALSE],
     [logErrorsToConsole |-> TRUE]}

\* log`a${"b"}`
DispatchCall == TemplateCall(<<<<"a">>, <<>>>>, <<StringValue(<<"b">>)>>)

NextDispatch ==
    \/ \E l \in Ids, options \in DispatchOptions : Configure(l, options)
    \/ \E l \in Ids, fn \in ListenerFns : AddEventListener(l, fn)
    \/ \E l \in Ids, fn \in ListenerFns : RemoveEventListener(l, fn)
    \/ \E l \in Ids : Log(l, DispatchCall)
    \/ \E i \in 1..Len(inflight) : FetchFail(i)
    \/ \E i \in 1..Len(inflight) : FetchOk(i)

SpecDispatch == InitWithoutFlags /\ [][NextDispatch]_vars


\* the last call was a log call that #shouldLog let through
LoggedThrough ==
    lastCall.op = "log" /\ shouldLog(loggers[lastCall.logger].options)

\* the listeners that were called, in the order of the calls
FnsOf(dispatched) == [k \in 1..Len(dispatched) |-> dispatched[k].fn]

\* the listeners of a list that throw
Throwing(listeners) == {k \in 1..Len(listeners) : Throws(listeners[k])}

\* C3: in a log call that is not suppressed, every registered listener is
\* called once with the same {output, stripped}, those registered after a
\* throwing listener included; each throw is reported to console.error; the
\* call does not throw and returns the result.
C3_ThrowingListenerIsolated ==
    LoggedThrough =>
        /\ FnsOf(lastCall.dispatched) = ListenersOfLastCall
        /\ lastCall.returned = "result" /\ Len(lastCall.result) = 1
        /\ \A k \in 1..Len(lastCall.dispatched) :
              lastCall.dispatched[k].e = lastCall.result[1]
        /\ Len(lastCall.consoleError) = Cardinality(Throwing(ListenersOfLastCall))
        /\ ~lastCall.threw

\* a log call on a logger whose throwing listener is followed by another
\* listener, which was called
C3_Witness ==
    /\ LoggedThrough
    /\ \E i, j \in 1..Len(ListenersOfLastCall) :
          /\ i < j /\ Throws(ListenersOfLastCall[i]) /\ ~Throws(ListenersOfLastCall[j])
          /\ j <= Len(lastCall.dispatched)
          /\ lastCall.dispatched[j].fn = ListenersOfLastCall[j]
    /\ lastCall.consoleError # <<>>

\* the list without every occurrence of x, the rest in order
RECURSIVE Without(_, _)
Without(seq, x) ==
    IF seq = <<>> THEN <<>>
    ELSE IF Head(seq) = x THEN Without(Tail(seq), x)
    ELSE <<Head(seq)>> \o Without(Tail(seq), x)

\* C4: removeEventListener of a function that is not registered returns
\* false and leaves the list as it is; of a registered function it returns
\* true and removes every occurrence, the others keeping their order; a log
\* call dispatches only to functions in the list, and a function absent
\* from the list comes back only by addEventListener of that function.
C4_RemoveEventListener ==
    [][/\ lastCall'.op = "removeEventListener" =>
            LET old == loggers[lastCall'.logger].eventListeners
                new == loggers'[lastCall'.logger].eventListeners
            IN IF lastCall'.fn \notin Range(old)
               THEN lastCall'.returned = "false" /\ new = old
               ELSE /\ lastCall'.returned = "true"
                    /\ lastCall'.fn \notin Range(new)
                    /\ new = Without(old, lastCall'.fn)
       /\ lastCall'.op = "log" =>
            Range(FnsOf(lastCall'.dispatched))
                \subseteq Range(loggers[lastCall'.logger].eventListeners)
       /\ \A l \in Ids : \A fn \in ListenerFns :
            (fn \notin Range(loggers[l].eventListeners)
               /\ fn \in Range(loggers'[l].eventListeners))
            => (lastCall'.op = "addEventListener"
                  /\ lastCall'.fn = fn /\ lastCall'.logger = l)
      ]_vars

\* a function registered twice among others was removed
C4_Witness ==
    /\ lastCall.op = "removeEventListener" /\ lastCall.returned = "true"
    /\ lastCall.found = 2
    /\ ListenersOfLastCall # <<>>

\* C5: a log call that is not suppressed writes the final output to the
\* console once when console is enabled and not at all when it is disabled;
\* either way every listener is dispatched and, when externalLogging is
\* configured, the request is issued.
C5_ConsoleSwitch ==
    LoggedThrough =>
        LET options == loggers[lastCall.logger].options
        IN /\ Len(lastCall.result) = 1
           /\ Truthy(options, "console")
                => lastCall.consoleLog = <<lastCall.result[1].output>>
           /\ ~Truthy(options, "console") => lastCall.consoleLog = <<>>
           /\ FnsOf(lastCall.dispatched) = ListenersOfLastCall
           /\ options.externalLogging # <<>> =>
                /\ Len(lastCall.forwarded) = 1
                /\ lastCall.forwarded[1].url = options.externalLogging[1].url
                /\ lastCall.forwarded[1].message = lastCall.result[1].stripped

\* a log call with console disabled that dispatched and forwarded
C5_Witness ==
    /\ LoggedThrough
    /\ ~Truthy(loggers[lastCall.logger].options, "console")
    /\ lastCall.consoleLog = <<>>
    /\ lastCall.dispatched # <<>>
    /\ lastCall.forwarded # <<>>

\* C6: with externalLogging configured, a log call that is not suppressed
\* returns the result while its request is still in flight; when a request
\* fails nothing is thrown, and console.error is written if and only if
\* logErrorsToConsole is enabled when it fails.
C6_ForwardNotAwaited ==
    [][/\ (/\ lastCall'.op = "log"
           /\ shouldLog(loggers[lastCall'.logger].options)
           /\ loggers[lastCall'.logger].options.externalLogging # <<>>)
          => /\ lastCall'.returned = "result" /\ Len(lastCall'.result) = 1
             /\ ~lastCall'.threw
             /\ Len(lastCall'.forwarded) = 1
             /\ inflight' = Append(inflight, lastCall'.forwarded[1])
       /\ lastCall'.op = "fetchFail"
          => /\ ~lastCall'.threw
             /\ lastCall'.returned = "undefined"
             /\ Len(inflight') = Len(inflight) - 1
             /\ lastCall'.consoleError # <<>>
                  <=> Truthy(loggers[lastCall'.logger].options, "logErrorsToConsole")
      ]_vars

\* a request failed while logErrorsToConsole was disabled and nothing was
\* reported, another request being still in flight
C6_Witness ==
    /\ lastCall.op = "fetchFail"
    /\ ~Truthy(loggers[lastCall.logger].options, "logErrorsToConsole")
    /\ lastCall.consoleError = <<>>
    /\ inflight # <<>>

\* C7: when the request of a logger whose externalLogging has an onError
\* callback fails, the callback is invoked.
C7_OnErrorInvoked ==
    (/\ lastCall.op = "fetchFail"
     /\ loggers[lastCall.logger].options.externalLogging # <<>>
     /\ loggers[lastCall.logger].options.externalLogging[1].onError)
    => lastCall.onError >= 1


----------------------------------------------------------------------------
(* Configuration: the constructor and configure                            *)

ConfigureOptions ==
    {[console |-> FALSE, autoSpaceBetween |-> FALSE],
     [console |-> TRUE],
     [externalLogging |-> <<Target>>, logErrorsToConsole |-> FALSE]}

ConfigureConstructorOptions ==
    {[tags |-> <<"db">>, listeners |-> <<"f", "g">>, console |-> FALSE,
      trimBefore |-> "yes"]}

NextConfigure ==
    \/ \E options \in ConfigureConstructorOptions : Construct(options)
    \/ \E l \in Ids, options \in ConfigureOptions : Configure(l, options)
    \/ \E l \in Ids : TransformBefore(l, <<"bang", "pad">>)
    \/ \E l \in Ids : TransformAfter(l, <<"pad", "bang">>)

SpecConfigure == InitWithoutFlags /\ [][NextConfigure]_vars

\* C8: configure gives every field of its argument the value given, leaves
\* every other field, the listeners and the transformers of the logger and
\* every other logger as they were; at any time each field of each logger
\* holds the value last given to it by the constructor or configure, or its
\* default.
C8_ConfigureMerges ==
    [][/\ lastCall'.op = "configure" =>
            LET l == lastCall'.logger
                given == lastCall'.partial[1]
                old == loggers[l]
                new == loggers'[l]
            IN /\ DOMAIN new.options = DOMAIN old.options \cup DOMAIN given
               /\ \A f \in DOMAIN given : new.options[f] = given[f]
               /\ \A f \in DOMAIN old.options \ DOMAIN given :
                     new.options[f] = old.options[f]
               /\ new.eventListeners = old.eventListeners
               /\ new.before = old.before
               /\ new.after = old.after
               /\ \A k \in Ids \ {l} : loggers'[k] = loggers[k]
       /\ \A l \in 1..Len(loggers') : loggers'[l].options = written'[l]
      ]_vars

\* configure gave two fields to a logger that has listeners, transformers
\* and a field set by its constructor
C8_Witness ==
    /\ lastCall.op = "configure"
    /\ lastCall.partial = <<[console |-> FALSE, autoSpaceBetween |-> FALSE]>>
    /\ ListenersOfLastCall # <<>>
    /\ loggers[lastCall.logger].before # <<>>
    /\ loggers[lastCall.logger].options.tags = <<"db">>
    /\ loggers[lastCall.logger].options.externalLogging # <<>>


----------------------------------------------------------------------------
(* Rendering: both call shapes over every argument list of the bounds      *)

Values ==
    {StringValue(<<"a">>), StringValue(<<>>), FunctionValue(<<RED>>),
     UndefinedValue, NullValue}

\* the literal parts of a template
Parts == {<<>>, <<"x">>}

OrdinaryCalls ==
    {OrdinaryCall(args) : args \in UNION {[1..n -> Values] : n \in 0..MaxArgs}}

TemplateCalls ==
    UNION {{TemplateCall(strings, values) :
                strings \in [1..(n + 1) -> Parts], values \in [1..n -> Values]}
           : n \in 0..MaxArgs}

NextRender ==
    \/ \E l \in Ids, b \in BOOLEAN : Configure(l, [autoSpaceBetween |-> b])
    \/ \E l \in Ids, call \in OrdinaryCalls \cup TemplateCalls : Log(l, call)
    \/ \E l \in Ids, args \in LevelArgs : Error(l, args)
    \/ \E l \in Ids, args \in LevelArgs : Bad(l, args)
    \/ \E l \in Ids, args \in LevelArgs : Warn(l, args)
    \/ \E l \in Ids, args \in LevelArgs : Info(l, args)
    \/ \E l \in Ids, args \in LevelArgs : Debug(l, args)
    \/ \E l \in Ids, args \in LevelArgs : Ok(l, args)
    \/ \E l \in Ids, args \in LevelArgs : Good(l, args)
    \/ \E l \in Ids, args \in LevelArgs : Neutral(l, args)

SpecRender == InitWithoutFlags /\ [][NextRender]_vars

\* the reference rendering of one value: a callable is invoked, any other
\* value is string-converted
ReferenceValue(val) ==
    IF Callable(val) THEN val.text ELSE String(val)

\* p0 + render(v1) + p1 + ... + render(vn) + pn
RECURSIVE ReferenceTemplate(_, _)
ReferenceTemplate(strings, values) ==
    IF values = <<>> THEN Head(strings)
    ELSE Head(strings) \o ReferenceValue(Head(values))
             \o ReferenceTemplate(Tail(strings), Tail(values))

\* the texts of the arguments with the separator between neighbours
RECURSIVE ReferenceOrdinary(_, _)
ReferenceOrdinary(args, separator) ==
    IF args = <<>> THEN <<>>
    ELSE IF Len(args) = 1 THEN ReferenceValue(args[1])
    ELSE ReferenceValue(Head(args)) \o separator
             \o ReferenceOrdinary(Tail(args), separator)

Reference(call, options) ==
    IF call.template
    THEN ReferenceTemplate(call.strings, call.args)
    ELSE ReferenceOrdinary(call.args,
                           IF Truthy(options, "autoSpaceBetween") THEN <<" ">> ELSE <<>>)

\* C10: with no transformers and no trimming, the output of a log call is
\* the reference rendering of its arguments followed by one reset code, and
\* every callable argument was invoked.
C10_RenderingReference ==
    (/\ LoggedThrough
     /\ loggers[lastCall.logger].before = <<>>
     /\ loggers[lastCall.logger].after = <<>>
     /\ ~TruthyString(loggers[lastCall.logger].options, "trimBefore")
     /\ ~TruthyString(loggers[lastCall.logger].options, "trimAfter"))
    => /\ Len(lastCall.result) = 1
       /\ lastCall.result[1].output
            = Reference(lastCall.call[1], loggers[lastCall.logger].options)
                  \o <<RESET>>
       /\ lastCall.invoked = CountFunctions(lastCall.call[1].args)


----------------------------------------------------------------------------
(* Misuse: assigning tags, class with a name that is taken                 *)

NextMisuse ==
    \/ \E l \in Ids : Configure(l, [tags |-> <<"net">>])
    \/ \E l \in Ids, tags \in TagLists : SetTags(l, tags)
    \/ \E l \in Ids, name \in ClassNames, styleFn \in StyleFns : Class(l, name, styleFn)

SpecMisuse == Init /\ [][NextMisuse]_vars

\* the names of the styles attached to a logger
Attached(this) == {c.name : c \in this.classes}

\* C11: assigning to tags throws and changes nothing; class throws and
\* changes nothing when the name is a member the logger inherits, its field
\* options or a name attached before; with any other name it does not throw
\* and attaches the style function under that name, changing nothing else.
C11_MisuseFailsFast ==
    [][/\ lastCall'.op = "setTags" => lastCall'.threw /\ loggers' = loggers
       /\ lastCall'.op = "class" =>
            LET l == lastCall'.logger
                name == lastCall'.name
            IN IF name \in PrototypeNames \cup {"options"} \cup Attached(loggers[l])
               THEN lastCall'.threw /\ loggers' = loggers
               ELSE /\ ~lastCall'.threw
                    /\ loggers' = [loggers EXCEPT
                          ![l].classes =
                              @ \cup {[name |-> name, styleFn |-> lastCall'.fn]}]
      ]_vars

\* class threw on a name that an earlier call attached with another style,
\* which is still the one attached
C11_Witness ==
    /\ lastCall.op = "class" /\ lastCall.threw
    /\ lastCall.name \notin PrototypeNames
    /\ \E c \in loggers[lastCall.logger].classes :
          c.name = lastCall.name /\ c.styleFn # lastCall.fn
    /\ loggers[lastCall.logger].options.tags = <<"net">>


----------------------------------------------------------------------------
(* The order of a log call                                                 *)

PipelineOptions ==
    {[console |-> FALSE],
     [externalLogging |-> <<Target>>]}

\* log("a", " b ")
PipelineCall == OrdinaryCall(<<StringValue(<<"a">>), StringValue(<<" ", "b", " ">>)>>)

NextPipeline ==
    \/ \E l \in Ids, options \in PipelineOptions : Configure(l, options)
    \/ \E l \in Ids : Configure(l, [trimBefore |-> "yes", trimAfter |-> "yes"])
    \/ \E l \in Ids, fn \in {"f", "g"} : AddEventListener(l, fn)
    \/ \E l \in Ids : TransformBefore(l, <<"bang", "pad">>)
    \/ \E l \in Ids : TransformAfter(l, <<"pad">>)
    \/ \E l \in Ids : Log(l, PipelineCall)
    \/ \E i \in 1..Len(inflight) : FetchOk(i)

SpecPipeline == InitWithoutFlags /\ [][NextPipeline]_vars

\* the steps of a trace, in order
Steps(trace) == [k \in 1..Len(trace) |-> trace[k].step]

\* n times x
Repeat(x, n) == [k \in 1..n |-> x]

\* C12: a log call that returns has run, in this order: the before
\* transformers in registration order, the append of the reset code, the
\* after transformers in registration order, the trimming, the console
\* write if the console is enabled, the listeners in registration order,
\* the request if a target is configured, the return. Each transformer is
\* given what the step before it produced, and the console, the listeners
\* and the caller get the trimmed message.
C12_PipelineOrder ==
    [][lastCall'.op = "log" /\ lastCall'.returned = "result" =>
         LET this == loggers[lastCall'.logger]
             trace == lastCall'.trace
             nB == Len(this.before)
             nA == Len(this.after)
             nL == Len(this.eventListeners)
             nC == IF Truthy(this.options, "console") THEN 1 ELSE 0
             nF == IF this.options.externalLogging # <<>> THEN 1 ELSE 0
             trimAt == nB + nA + 2
             finalMessage == trace[trimAt].output
         IN /\ Steps(trace) = Repeat("before", nB) \o <<"reset">>
                              \o Repeat("after", nA) \o <<"trim">>
                              \o Repeat("console", nC) \o Repeat("listener", nL)
                              \o Repeat("fetch", nF) \o <<"return">>
            /\ [k \in 1..nB |-> trace[k].fn] = this.before
            /\ [k \in 1..nA |-> trace[nB + 1 + k].fn] = this.after
            /\ [k \in 1..nL |-> trace[trimAt + nC + k].fn] = this.eventListeners
            /\ trace[1].input = render(lastCall'.call[1], this.options)
            /\ \A k \in 1..(trimAt - 1) : trace[k + 1].input = trace[k].output
            /\ \A k \in (1..nB) \cup ((nB + 2)..(trimAt - 1)) :
                  trace[k].output = Transform(trace[k].fn, trace[k].input)
            /\ trace[nB + 1].output = trace[nB + 1].input \o <<RESET>>
            /\ \A k \in (trimAt + 1)..(trimAt + nC + nL) : trace[k].input = finalMessage
            /\ trace[Len(trace)].output = finalMessage
            /\ lastCall'.result[1].output = finalMessage
            /\ nF = 1 => trace[Len(trace) - 1].input = stripAnsi(finalMessage)
      ]_vars

\* a call that ran two before transformers and an after transformer, wrote
\* to the console, called two listeners and issued a request
C12_Witness ==
    /\ lastCall.op = "log" /\ lastCall.returned = "result"
    /\ lastCall.ranBefore = <<"bang", "pad">>
    /\ lastCall.ranAfter = <<"pad">>
    /\ lastCall.consoleLog # <<>>
    /\ FnsOf(lastCall.dispatched) = <<"g", "f">>
    /\ lastCall.forwarded # <<>>
    /\ lastCall.result[1].output # lastCall.trace[4].output


----------------------------------------------------------------------------
(* A transformer that throws                                               *)

\* log("a") passes the transformer boom, log("x") makes it throw
ThrowCalls == {OrdinaryCall(<<StringValue(<<"a">>)>>), OrdinaryCall(<<StringValue(<<"x">>)>>)}

NextThrow ==
    \/ \E l \in Ids : Configure(l, [externalLogging |-> <<Target>>])
    \/ \E l \in Ids : AddEventListener(l, "f")
    \/ \E l \in Ids : TransformBefore(l, <<"bang", "boom">>)
    \/ \E l \in Ids : TransformAfter(l, <<"boom", "pad">>)
    \/ \E l \in Ids, call \in ThrowCalls : Log(l, call)
    \/ \E i \in 1..Len(inflight) : FetchOk(i)

SpecThrow == InitWithoutFlags /\ [][NextThrow]_vars

\* the entries of a trace that are calls of a transformer
TransformerCalls(trace) ==
    SelectSeq(trace, LAMBDA e : e.step \in {"before", "after"})

\* C14: in a log call that is not suppressed, the transformers run in
\* registration order, before then after, each on what the step before it
\* produced. When one of them throws, the call ends there with the
\* exception: no later transformer runs, nothing is written to the console,
\* no listener is called, no request is issued, and the options, the
\* listener list, the transformer lists and the requests in flight are what
\* they were. When none throws, the call runs every transformer and returns.
C14_TransformerThrowAborts ==
    [][lastCall'.op = "log" /\ shouldLog(loggers[lastCall'.logger].options) =>
         LET this == loggers[lastCall'.logger]
             all == this.before \o this.after
             trace == lastCall'.trace
             calls == TransformerCalls(trace)
             n == Len(calls)
             thrown(e) == TransformThrows(e.fn, e.input)
         IN /\ n <= Len(all) /\ [k \in 1..n |-> calls[k].fn] = SubSeq(all, 1, n)
            /\ lastCall'.ranBefore \o lastCall'.ranAfter = SubSeq(all, 1, n)
            /\ trace # <<>> /\ trace[1].input = render(lastCall'.call[1], this.options)
            /\ \A k \in 1..(Len(trace) - 1) :
                  trace[k + 1].step \in {"before", "reset", "after"}
                      => trace[k + 1].input = trace[k].output
            /\ \A k \in 1..(n - 1) : ~thrown(calls[k])
            /\ lastCall'.threw <=> (n > 0 /\ thrown(calls[n]))
            /\ IF lastCall'.threw
               THEN /\ trace[Len(trace)] = calls[n]
                    /\ lastCall'.returned = "undefined" /\ lastCall'.result = <<>>
                    /\ lastCall'.consoleLog = <<>> /\ lastCall'.consoleError = <<>>
                    /\ lastCall'.dispatched = <<>> /\ lastCall'.forwarded = <<>>
                    /\ UNCHANGED <<loggers, inflight, blacklistTags, whitelistTags>>
               ELSE /\ n = Len(all)
                    /\ lastCall'.returned = "result"
                    /\ Len(lastCall'.dispatched) = Len(this.eventListeners)
      ]_vars

\* the second before transformer threw ahead of the after transformers, on
\* a logger with a listener and a target, after an earlier call had gone
\* through the same before transformers and been forwarded
C14_Witness ==
    /\ lastCall.op = "log" /\ lastCall.threw
    /\ lastCall.ranBefore = <<"bang", "boom">> /\ lastCall.ranAfter = <<>>
    /\ loggers[lastCall.logger].after # <<>>
    /\ loggers[lastCall.logger].eventListeners # <<>>
    /\ loggers[lastCall.logger].options.externalLogging # <<>>
    /\ \E k \in 1..Len(inflight) : inflight[k].message \in {<<"a", "!">>, <<" ", "a", "!", " ">>}


----------------------------------------------------------------------------
(* Listeners that change the listener list from inside their callback      *)

\* log("a")
ReentrantCall == OrdinaryCall(<<StringValue(<<"a">>)>>)

NextReentrant ==
    \/ \E l \in Ids, fn \in {"f"} \cup ReentrantFns : AddEventListener(l, fn)
    \/ \E l \in Ids : Log(l, ReentrantCall)

SpecReentrant == InitWithoutFlags /\ [][NextReentrant]_vars

\* C13: in a log call that is not suppressed, no function is called more
\* often than it was registered when the call began, so that a listener
\* added during the dispatch does not receive it, and a function that was
\* registered when the call began and is still registered when it ends was
\* called once for each of its registrations.
C13_DispatchSnapshot ==
    lastCall.op = "log" /\ lastCall.returned = "result" =>
        LET called == FnsOf(lastCall.dispatched)
        IN \A fn \in Range(lastCall.registered) \cup Range(called) :
              /\ countOf(called, fn) <= countOf(lastCall.registered, fn)
              /\ fn \in Range(lastCall.remaining) =>
                    countOf(called, fn) = countOf(lastCall.registered, fn)

====
